---- MODULE Spec2Model ----
(***************************************************************************)
(* A model of the MFS server of src/main.cpp: the header codec, the file   *)
(* registry, the client table, and the serve / accept loops, with the      *)
(* transport, the clock and the file handlers as nondeterministic inputs.  *)
(* Indexes are 0-based as in the source.  Memory a pointer designates is    *)
(* modelled by what can be read through it: a pointer is a small integer   *)
(* (0 is NULL) and the bytes behind it are looked up in NameStore (file     *)
(* names), in the step's copy of the two scratch buffers, or in HandlerMem. *)
(***************************************************************************)
EXTENDS Integers, Sequences, FiniteSets, TLC

\* ---------------------------------------------------------------- opcodes
OP_NOOP == 0
OP_READ == 1
OP_WRITE == 2
OP_LS == 3
OP_ERROR == 4
MFS_RESERVED_OP_RANGE == 30
RESPONSE_OF(x) == IF x >= 128 THEN x ELSE x + 128

\* ------------------------------------------------- sizes of the instance
ClientsLen == 2      \* clients_len  (constructor argument cbuf_size)
FilesBSize == 3      \* files_bsize  (constructor argument fbuf_size)
PathBSize == 3       \* path_bsize   (constructor argument pbuf_size)
DataBSizeMin == 2    \* smallest data_bsize tried (the error code needs 2)
DataBSizeGap == 2    \* the other data_bsize tried is DataBSizeMin + gap
TimerMs == 1         \* timer_ms, scaled down from its default
MaxTime == 2         \* the clock stops advancing here
MaxClientId == 2     \* identifiers the accept callback hands out

Byte == 256

\* hard_limit, scaled down from its default: above every buffer capacity.
HardLimit == PathBSize + DataBSizeMin + DataBSizeGap

Min(a, b) == IF a < b THEN a ELSE b

\* n bytes of value b.
Fill(n, b) == [k \in 1..n |-> b]

\* --------------------------------------------------------- the header codec
\* An unsigned int is held as its four bytes, least significant first, so
\* that all 32 bits are kept.
RECURSIVE BitOr(_, _)
BitOr(a, b) ==
  IF a = 0 THEN b
  ELSE IF b = 0 THEN a
  ELSE (IF (a % 2 = 1) \/ (b % 2 = 1) THEN 1 ELSE 0) + 2 * BitOr(a \div 2, b \div 2)

U32Or(u, v) == [k \in 1..4 |-> BitOr(u[k], v[k])]

\* u << (8 * n), the bytes shifted out at the top being lost.
U32Shl8(u, n) == [k \in 1..4 |-> IF k <= n THEN 0 ELSE u[k - n]]

\* The unsigned int of a small non-negative integer.
ToU32(n) == << n % Byte, (n \div Byte) % Byte,
               (n \div (Byte * Byte)) % Byte, (n \div (Byte * Byte * Byte)) % Byte >>

\* u > n for an integer n below 2^31.
U32Gt(u, n) ==
  \/ u[4] >= 128
  \/ u[1] + Byte * u[2] + Byte * Byte * u[3] + Byte * Byte * Byte * u[4] > n

\* The integer of an unsigned int below 2^31.
U32Int(u) == u[1] + Byte * u[2] + Byte * Byte * u[3] + Byte * Byte * Byte * u[4]

\* (unsigned int)buffer[i] where buffer is an array of char: the byte is
\* sign-extended when plain char is signed (implementation-defined).
CharToUInt(b, signed) ==
  IF signed /\ b >= 128 THEN <<b, 255, 255, 255>> ELSE <<b, 0, 0, 0>>

\* fill_headers, for a message whose sizes are unsigned ints.
fill_headers(msg) ==
  << msg.psize[1], msg.psize[2], msg.psize[3], msg.psize[4],
     msg.dsize[1], msg.dsize[2], msg.dsize[3], msg.dsize[4],
     msg.op % Byte >>

read_headers(buffer, signed) ==
  LET u(i) == CharToUInt(buffer[i], signed)
  IN [ psize |-> U32Or(U32Or(U32Or(U32Or(ToU32(0), u(1)), U32Shl8(u(2), 1)),
                             U32Shl8(u(3), 2)), U32Shl8(u(4), 3)),
       dsize |-> U32Or(U32Or(U32Or(U32Or(ToU32(0), u(5)), U32Shl8(u(6), 1)),
                             U32Shl8(u(7), 2)), U32Shl8(u(8), 3)),
       op    |-> buffer[9] ]

\* The header of a message whose sizes are small integers.
Header(msg) == fill_headers([psize |-> ToU32(msg.psize), dsize |-> ToU32(msg.dsize),
                             op |-> msg.op])

\* ------------------------------------------------------------ byte helpers
\* memcmp: 1 when the sizes or the first buf1_size bytes differ, else 0.
memcmp(buf1, buf2, buf1_size, buf2_size) ==
  IF buf1_size # buf2_size THEN 1
  ELSE IF \E i \in 1..buf1_size : buf1[i] # buf2[i] THEN 1 ELSE 0

\* strlen: index of the first zero byte within buf_size bytes; 0 when there
\* is none (and 0 for the empty string).
strlen(buf, buf_size) ==
  LET zs == {i \in 1..buf_size : buf[i] = 0}
  IN IF zs = {} THEN 0 ELSE (CHOOSE i \in zs : \A j \in zs : i <= j) - 1

\* ------------------------------------------------------------ the registry
\* Name storage owned by the callers of register_file, by address.
NameStore ==
  << <<1, 0>>,          \* 1: "a"
     <<1, 1, 0>>,       \* 2: "aa"
     <<1, 1, 1, 0>>,    \* 3: "aaa"
     <<1, 1>>,          \* 4: no terminator within path_size
     <<0>>,             \* 5: "", the empty string
     <<1, 0, 1>> >>     \* 6: "a" again, in other storage

\* The bytes readable through a file's path pointer.
PathMem(p) == IF p = 0 THEN <<>> ELSE NameStore[p]

EmptyFile == [path |-> 0, path_size |-> 0, writer_f |-> 0, reader_f |-> 0]

\* The mfs_file_t values callers pass to register_file.
NewFiles ==
  { [path |-> p, path_size |-> Len(NameStore[p]), writer_f |-> 20 + p, reader_f |-> 10 + p]
      : p \in 1..Len(NameStore) }
  \cup { [path |-> 0, path_size |-> 0, writer_f |-> 20, reader_f |-> 10] }

FileStrlen(f) == strlen(PathMem(f.path), f.path_size)

\* Mutant: no file is ever found.
get_file_index_none(fs, path, psize) == -1

\* get_file_index: -1 when path holds a zero byte in its first psize bytes
\* or no slot's string equals it; else the first matching index.
get_file_index(fs, path, psize) ==
  IF \E i \in 1..psize : path[i] = 0 THEN -1
  ELSE LET hit == {i \in 0..(FilesBSize - 1) :
                     memcmp(path, PathMem(fs[i].path), psize, FileStrlen(fs[i])) = 0}
       IN IF hit = {} THEN -1 ELSE CHOOSE i \in hit : \A j \in hit : i <= j

is_file_empty(fs, index) ==
  IF fs[index].path_size = 0 /\ fs[index].path = 0
     /\ fs[index].reader_f = 0 /\ fs[index].writer_f = 0 THEN 1 ELSE 0

VARIABLES
  files,        \* the file table: [0..FilesBSize-1 -> mfs_file_t]
  clients,      \* the client table: [0..ClientsLen-1 -> client_handlers_t]
  data_bsize,   \* capacity of the data buffer, fixed at construction
  char_signed,  \* whether plain char is signed in this build
  now,          \* what the clock callback returns
  idx,          \* serve_clients' loop index; -1 when no call is in progress
  log,          \* the callbacks made by the latest step, in order
  inp,          \* what the transport and handlers offered to the latest step
  pre,          \* the client slot and the clock as the latest step found them
  ret,          \* return value of the latest register_file / unregister_file
  crashed       \* a call through a null handler pointer took the server down

vars == <<files, clients, data_bsize, char_signed, now, idx, log, inp, pre, ret, crashed>>

\* ------------------------------------------------------------- messages
\* An mfs_message_t.  path and data are pointers: "null", one of the two
\* scratch buffers, or memory of the handler that returned the message.
empty_error_msg ==
  [psize |-> 0, dsize |-> 0, op |-> RESPONSE_OF(OP_ERROR), path |-> "null", data |-> "null"]

noop_response ==
  [psize |-> 0, dsize |-> 0, op |-> RESPONSE_OF(OP_NOOP), path |-> "null", data |-> "null"]

\* What a handler keeps in its own memory for the replies it builds.
HandlerMem == <<88>>

\* ------------------------------------------- one serve step's working state
\* cl: the client table; lg: callbacks made so far; nw: write calls so far;
\* pos: bytes taken from the client's stream; hb, pb, db: the header buffer
\* and the two scratch buffers; r: the latest callback's return value;
\* gone: identifiers closed in this step; msg: read_mfs_message's result;
\* called: whether a file handler was called; crash: it was a null pointer.
\* The server reads from a scratch buffer only bytes the same iteration put
\* there, so what the buffers held before is immaterial and taken as 0.
Ctx0 ==
  [cl |-> clients, lg |-> <<>>, nw |-> 0, pos |-> 0, hb |-> <<>>,
   pb |-> Fill(PathBSize, 0), db |-> Fill(data_bsize, 0),
   r |-> 0, gone |-> {}, msg |-> empty_error_msg, called |-> FALSE, crash |-> FALSE]

\* The bytes a client put on its stream for message m: header, path, data.
Wire(m) == Header(m) \o m.path \o m.data

\* The part of it the transport can deliver before its reads give up.
Stream(in) == SubSeq(Wire(in.m), 1, in.cut)

\* The bytes behind a message pointer, n of them.
Deref(ctx, ptr, n) ==
  LET mem == IF ptr = "path_buffer" THEN ctx.pb
             ELSE IF ptr = "data_buffer" THEN ctx.db
             ELSE IF ptr = "handler" THEN HandlerMem
             ELSE <<>>
  IN SubSeq(mem, 1, Min(n, Len(mem)))

\* The write callback: the in.wf-th write of the step fails, and so does any
\* write to a connection that was closed; every other write is complete.
client_writer(ctx, in, client, bytes) ==
  LET k == ctx.nw + 1
      r == IF client \in ctx.gone \/ k = in.wf THEN -1 ELSE Len(bytes)
  IN [ctx EXCEPT !.nw = k, !.r = r,
                 !.lg = Append(@, <<"write", client, Len(bytes), r, bytes>>)]

\* The read callback: delivers what is left of the stream, up to n bytes,
\* into the buffer named by dest; a closed connection delivers nothing.
client_reader(ctx, in, client, n, dest) ==
  LET left == Len(Stream(in)) - ctx.pos
      r    == IF client \in ctx.gone THEN -1 ELSE Min(n, left)
      got  == IF r > 0 THEN SubSeq(Stream(in), ctx.pos + 1, ctx.pos + r) ELSE <<>>
      c1   == [ctx EXCEPT !.r = r, !.pos = @ + (IF r > 0 THEN r ELSE 0),
                          !.lg = Append(@, <<"read", client, n, r, got>>)]
  IN IF dest = "header" THEN [c1 EXCEPT !.hb = got]
     ELSE IF dest = "path_buffer"
     THEN [c1 EXCEPT !.pb = got \o SubSeq(@, Len(got) + 1, Len(@))]
     ELSE [c1 EXCEPT !.db = got \o SubSeq(@, Len(got) + 1, Len(@))]

\* Mutant: the connection is closed but stays in its slot.
drop_client_keep(ctx, client) ==
  IF client = 0 THEN ctx
  ELSE IF \A i \in 0..(ClientsLen - 1) : ctx.cl[i].client # client THEN ctx
  ELSE [ctx EXCEPT !.gone = @ \cup {client},
                   !.lg = Append(@, <<"close", client, 0, 0, <<>>>>)]

drop_client(ctx, client) ==
  IF client = 0 THEN ctx
  ELSE LET hit == {i \in 0..(ClientsLen - 1) : ctx.cl[i].client = client}
       IN IF hit = {} THEN ctx
          ELSE LET i == CHOOSE i \in hit : \A j \in hit : i <= j
               IN [ctx EXCEPT !.cl[i].client = 0, !.gone = @ \cup {client},
                              !.lg = Append(@, <<"close", client, 0, 0, <<>>>>)]

\* The states between the steps of a function are handed on as operator
\* arguments (c1, c2, ...), each evaluated once.
send_mfs_message(ctx, in, msg, client) ==
  LET AfterData(c3) ==
        IF c3.r # msg.dsize THEN [drop_client(c3, client) EXCEPT !.r = -1]
        ELSE [c3 EXCEPT !.r = 0]
      AfterPath(c2) ==
        IF c2.r # msg.psize THEN [drop_client(c2, client) EXCEPT !.r = -1]
        ELSE AfterData(client_writer(c2, in, client, Deref(c2, msg.data, msg.dsize)))
      AfterHeader(c1) ==
        IF c1.r # 9 THEN [drop_client(c1, client) EXCEPT !.r = -1]
        ELSE AfterPath(client_writer(c1, in, client, Deref(c1, msg.path, msg.psize)))
  IN AfterHeader(client_writer(ctx, in, client, Header(msg)))

\* Mutant: the error code is sent as a single byte.
send_mfs_error_onebyte(ctx, in, msg, client, error_code) ==
  send_mfs_message([ctx EXCEPT !.db = <<error_code % Byte>> \o SubSeq(@, 2, Len(@))], in,
    [msg EXCEPT !.op = RESPONSE_OF(OP_ERROR), !.dsize = 1, !.data = "data_buffer"], client)

send_mfs_error(ctx, in, msg, client, error_code) ==
  LET code == <<error_code % Byte, (error_code \div Byte) % Byte>>
      c1   == [ctx EXCEPT !.db = code \o SubSeq(@, 3, Len(@))]
  IN send_mfs_message(c1, in,
       [msg EXCEPT !.op = RESPONSE_OF(OP_ERROR), !.dsize = 2, !.data = "data_buffer"], client)

\* The loop that consumes an oversized data payload, from processed_data on.
RECURSIVE ConsumeData(_, _, _, _, _)
ConsumeData(ctx, in, client, dsize, processed_data) ==
  IF processed_data >= dsize THEN ctx
  ELSE LET chunk_size == IF dsize - processed_data > data_bsize
                         THEN data_bsize ELSE dsize - processed_data
           AfterRead(c1) ==
             IF c1.r # chunk_size THEN drop_client(c1, client)
             ELSE ConsumeData(c1, in, client, dsize, processed_data + chunk_size)
       IN AfterRead(client_reader(ctx, in, client, chunk_size, "data_buffer"))

\* The loop that consumes an oversized path: it leaves after its first chunk.
ConsumePath(ctx, in, client, psize) ==
  IF 0 >= psize THEN ctx
  ELSE LET chunk_size == IF psize > PathBSize THEN PathBSize ELSE psize
           AfterRead(c1) == IF c1.r # chunk_size THEN drop_client(c1, client) ELSE c1
       IN AfterRead(client_reader(ctx, in, client, chunk_size, "path_buffer"))

\* Mutant: only psize is held against the hard limit.
OverHardLimit_psize(result) == U32Gt(result.psize, HardLimit)

\* The test of line 257.
OverHardLimit(result) ==
  U32Gt(result.psize, HardLimit) \/ U32Gt(result.dsize, HardLimit)

\* Mutant: only an error return counts as a failed read.
BodyShort_negative(r, n) == r < 0

\* The tests of lines 306 and 310 on what the read callback returned.
BodyShort(r, n) == r # n

read_mfs_message(ctx, in, client) ==
  LET Failed(c, error_code) ==
        [send_mfs_error(c, in, empty_error_msg, client, error_code)
           EXCEPT !.msg = empty_error_msg]
      Body(c1, result, psize, dsize) ==
        IF OverHardLimit(result)
        THEN [drop_client(c1, client) EXCEPT !.msg = empty_error_msg]
        ELSE IF psize > PathBSize \/ dsize > data_bsize
        THEN Failed(ConsumeData(ConsumePath(c1, in, client, psize), in, client, dsize, 0), 1)
        ELSE LET AfterData(c3) ==
                   IF BodyShort(c3.r, dsize) THEN Failed(c3, 1)
                   ELSE [c3 EXCEPT !.msg = [psize |-> psize,
                                            dsize |-> dsize,
                                            op    |-> result.op,
                                            path  |-> "path_buffer",
                                            data  |-> "data_buffer"]]
                 AfterPath(c2) ==
                   IF BodyShort(c2.r, psize) THEN Failed(c2, 1)
                   ELSE AfterData(client_reader(c2, in, client, dsize, "data_buffer"))
             IN AfterPath(client_reader(c1, in, client, psize, "path_buffer"))
      Parsed(c1, result) == Body(c1, result, U32Int(result.psize), U32Int(result.dsize))
      AfterHeader(c1) ==
        IF c1.r # 9 THEN Failed(c1, 3)
        ELSE Parsed(c1, read_headers(c1.hb, char_signed))
  IN AfterHeader(client_reader(ctx, in, client, 9, "header"))

\* ------------------------------------------------------------------- LS
RECURSIVE TotalSize(_)
TotalSize(i) ==
  IF i >= FilesBSize THEN 0
  ELSE FileStrlen(files[i]) + 1 + TotalSize(i + 1)

\* The fast path's data buffer after slots i.. were copied behind buf.
RECURSIVE FillNames(_, _)
FillNames(buf, i) ==
  IF i >= FilesBSize THEN buf
  ELSE LET str_len == FileStrlen(files[i])
       IN IF str_len = 0 THEN FillNames(buf, i + 1)
          ELSE FillNames(buf \o SubSeq(PathMem(files[i].path), 1, str_len) \o <<0>>, i + 1)

\* The streaming path's loop over the file slots, from slot i on.
RECURSIVE StreamNames(_, _, _, _)
StreamNames(ctx, in, client, i) ==
  IF i >= FilesBSize THEN ctx
  ELSE LET str_len == FileStrlen(files[i])
       IN IF str_len = 0 THEN StreamNames(ctx, in, client, i + 1)
          ELSE LET AfterNul(c2) ==
                     IF c2.r # 1 THEN drop_client(c2, client)
                     ELSE StreamNames(c2, in, client, i + 1)
                   AfterName(c1) ==
                     IF c1.r # str_len THEN drop_client(c1, client)
                     ELSE AfterNul(client_writer(c1, in, client, <<0>>))
               IN AfterName(client_writer(ctx, in, client,
                                          SubSeq(PathMem(files[i].path), 1, str_len)))

list_files(ctx, in, client) ==
  LET Fast(buf) ==
        send_mfs_message([ctx EXCEPT !.db = buf \o SubSeq(@, Len(buf) + 1, Len(@))], in,
          [psize |-> 0, dsize |-> Len(buf), op |-> RESPONSE_OF(OP_LS),
           path |-> "path_buffer", data |-> "data_buffer"], client)
      AfterHeader(c1) ==
        IF c1.r # 9 THEN drop_client(c1, client)
        ELSE StreamNames(c1, in, client, 0)
      Sized(total_size) ==
        IF total_size <= data_bsize THEN Fast(FillNames(<<>>, 0))
        ELSE AfterHeader(client_writer(ctx, in, client,
               Header([psize |-> 0, dsize |-> total_size, op |-> RESPONSE_OF(OP_LS),
                       path |-> "null", data |-> "null"])))
  IN Sized(TotalSize(0))

\* ------------------------------------------------------- the serve loop
\* What a file handler returns for request msg, by the handler's choice.
HandlerReply(msg, mode) ==
  IF mode = "echo"
  THEN [psize |-> msg.psize, dsize |-> 1, op |-> RESPONSE_OF(msg.op),
        path |-> "path_buffer", data |-> "handler"]
  ELSE [psize |-> 0, dsize |-> 0, op |-> RESPONSE_OF(msg.op), path |-> "null", data |-> "null"]

\* files[file_index].reader_f(request) or writer_f(request), then the send.
\* A null handler pointer is undefined behaviour: the server goes down, or
\* the call comes back with some message that is then sent.
CallHandler(ctx, in, client, file_index, msg) ==
  LET f  == IF msg.op = OP_READ THEN files[file_index].reader_f
            ELSE files[file_index].writer_f
      Called(c1) ==
        IF f = 0 /\ in.hres = "crash" THEN [c1 EXCEPT !.crash = TRUE]
        ELSE send_mfs_message(c1, in, HandlerReply(msg, in.hres), client)
  IN Called([ctx EXCEPT !.called = TRUE,
                        !.lg = Append(@, <<"call", f, file_index, msg.op,
                                           Deref(ctx, msg.path, msg.psize)>>)])

\* The switch on the opcode, lines 434-467.
Dispatch(ctx, in, i, file_index, msg) ==
  LET client == ctx.cl[i].client
  IN IF msg.op = OP_ERROR THEN send_mfs_message(ctx, in, noop_response, client)
     ELSE IF msg.op = OP_LS THEN list_files(ctx, in, client)
     ELSE IF msg.op = OP_NOOP THEN send_mfs_message(ctx, in, noop_response, client)
     ELSE IF msg.op \in {OP_READ, OP_WRITE} THEN CallHandler(ctx, in, client, file_index, msg)
     ELSE IF msg.op < MFS_RESERVED_OP_RANGE
          THEN send_mfs_message(ctx, in, noop_response, client)
          ELSE send_mfs_error(ctx, in, msg, client, 3003)

\* The lookup of line 422: the length handed to get_file_index is strlen's.
LookupRequest(path, psize) == get_file_index(files, path, strlen(path, psize))

\* Mutant: every client counts as timed out.
Expired_always(timer_end, t) == TRUE

\* Mutant: the deadline itself is not yet a timeout.
Expired_strict(timer_end, t) == timer_end < t

\* The test of line 404.
Expired(timer_end, t) == timer_end <= t

\* Mutant: read_mfs_message's failure value goes unnoticed.
IsSentinel_never(msg) == FALSE

\* The test of line 413 for read_mfs_message's failure value.
IsSentinel(msg) ==
  msg.data = "null" /\ msg.path = "null" /\ msg.dsize = 0 /\ msg.psize = 0

\* One iteration of serve_clients' loop, for slot i.
ServeOne(in, i) ==
  LET Dropped(c1) == drop_client(c1, c1.cl[i].client)
      Looked(c2, file_index) ==
        IF file_index = -1 /\ ~(c2.msg.op = OP_LS \/ c2.msg.op = OP_NOOP)
        THEN send_mfs_error(c2, in, c2.msg, c2.cl[i].client, 1000)
        ELSE Dispatch(c2, in, i, file_index, c2.msg)
      Stamped(c2) == Looked(c2, LookupRequest(c2.pb, c2.msg.psize))
      AfterRead(c1) ==
        IF IsSentinel(c1.msg) THEN Dropped(c1)
        ELSE Stamped([c1 EXCEPT !.cl[i].timer_end = now + TimerMs])
  IN IF clients[i].client = 0 THEN Ctx0
     ELSE IF Expired(clients[i].timer_end, now)
     THEN Dropped(send_mfs_error(Ctx0, in, noop_response, clients[i].client, 3000))
     ELSE IF in.avail >= 9
     THEN AfterRead(read_mfs_message(Ctx0, in, clients[i].client))
     ELSE Ctx0

\* --------------------------------------------------------------- inputs
RECURSIVE BitStrings(_)
BitStrings(n) ==
  IF n = 0 THEN {<<>>}
  ELSE {Append(s, b) : s \in BitStrings(n - 1), b \in {0, 1}}

Request(o, p, d) ==
  [psize |-> Len(p), dsize |-> d, op |-> o, path |-> p, data |-> Fill(d, 2)]

\* READ with every path over {0, 1} that fits the path buffer, WRITE with
\* a path of each kind.
PathMsgs ==
  { Request(OP_READ, p, 0) : p \in UNION {BitStrings(n) : n \in 0..PathBSize} }
  \cup { Request(OP_WRITE, p, 0) : p \in {<<>>, <<1>>, <<1, 0>>, <<1, 1>>, <<1, 0, 1>>} }

\* Every other kind of opcode, with paths that name a file, name none, or
\* hold a zero byte, and with and without data.
OtherOps == {OP_NOOP, OP_LS, OP_ERROR, 5, MFS_RESERVED_OP_RANGE - 1,
             MFS_RESERVED_OP_RANGE, 255}

OpMsgs ==
  { Request(o, p, 0) : o \in OtherOps, p \in {<<>>, <<1>>, <<1, 0>>} }
  \cup { Request(OP_NOOP, <<>>, DataBSizeMin), Request(OP_READ, <<1, 0>>, DataBSizeMin),
         Request(OP_READ, <<1, 1>>, 1) }

\* Requests with a size above a buffer capacity or above the hard limit.
BigMsgs ==
  { Request(OP_READ, Fill(n, 1), d) :
      n \in {0, PathBSize + 1, HardLimit, HardLimit + 1},
      d \in {0, DataBSizeMin + DataBSizeGap + 1, HardLimit + 1} }
  \ { Request(OP_READ, <<>>, 0) }

\* The requests on which transport failures are tried.
FaultMsgs ==
  { Request(OP_NOOP, <<>>, 0), Request(OP_LS, <<>>, 0), Request(OP_READ, <<1, 0>>, 1),
    Request(OP_READ, <<1, 1, 1>>, 0), Request(MFS_RESERVED_OP_RANGE, <<1>>, 0),
    Request(OP_READ, Fill(HardLimit, 1), HardLimit),
    Request(OP_LS, <<>>, DataBSizeMin + DataBSizeGap + 1) }

\* The requests of the specification that also moves the clock.
FewMsgs ==
  { Request(OP_NOOP, <<>>, 0), Request(OP_LS, <<>>, 0),
    Request(MFS_RESERVED_OP_RANGE, <<1>>, 0),
    Request(OP_NOOP, Fill(PathBSize + 1, 1), 0),
    Request(OP_NOOP, <<>>, HardLimit + 1) }

NoInput == [avail |-> 0, m |-> Request(OP_NOOP, <<>>, 0), cut |-> 0, wf |-> 0, hres |-> "none"]

Whole(m) == [avail |-> 9, m |-> m, cut |-> Len(Wire(m)), wf |-> 0, hres |-> "none"]

\* The handler's choices for a request that reaches a handler: readers
\* echo the path and add a byte of data, writers return a bare header.
HandlerChoices(m) ==
  IF m.op = OP_READ THEN {"none", "echo", "crash"}
  ELSE IF m.op = OP_WRITE THEN {"none", "empty", "crash"}
  ELSE {"none"}

\* Streams cut short: inside the header, after it, inside the body.
Cuts(m) == {c \in {8, 9, 9 + m.psize, Len(Wire(m)) - 1} : c < Len(Wire(m))}

MaxWrites == 3 + 2 * FilesBSize

\* What the transport and the handlers can offer to an iteration that reads.
RichInputs ==
  UNION { { [Whole(m) EXCEPT !.hres = h] : h \in HandlerChoices(m) }
          : m \in PathMsgs \cup OpMsgs \cup BigMsgs }
  \cup UNION { { [Whole(m) EXCEPT !.hres = h, !.cut = c] :
                   c \in Cuts(m), h \in HandlerChoices(m) \ {"crash"} }
               : m \in FaultMsgs }
  \cup UNION { { [Whole(m) EXCEPT !.hres = h, !.wf = w] :
                   w \in 1..MaxWrites, h \in HandlerChoices(m) \ {"crash"} }
               : m \in FaultMsgs }

FewInputs ==
  { Whole(m) : m \in FewMsgs }
  \cup { [Whole(m) EXCEPT !.cut = 9] : m \in FewMsgs }
  \cup { [Whole(m) EXCEPT !.wf = 1] : m \in FewMsgs }

\* An input is well-formed for the iteration it feeds: a failing write
\* names a write that happens, and a handler choice is present exactly when
\* a handler is called ("crash" only through a null pointer).
InputFits(in, ctx) ==
  /\ in.wf <= ctx.nw
  /\ (in.hres = "none") <=> ~ctx.called
  /\ (in.hres = "crash") => ctx.crash

\* The inputs of the iteration for slot i: none for an empty slot, the
\* failing write for an expired client, else what the client has sent.
Inputs(i, requests) ==
  IF clients[i].client = 0 THEN {NoInput}
  ELSE IF Expired(clients[i].timer_end, now)
  THEN {[NoInput EXCEPT !.avail = a, !.wf = w] : a \in {0, 9}, w \in 0..3}
  ELSE {[NoInput EXCEPT !.avail = a] : a \in {0, 8}} \cup requests

\* ---------------------------------------------------------------- actions
\* The constructor takes the client array as the caller filled it: every
\* identifier 0 ("an empty client's fd is always 0"), every deadline the
\* value the caller filled the array with, zero or some large value.
InitTimerEnds == {0, MaxTime + 1}

Init ==
  /\ files = [i \in 0..(FilesBSize - 1) |-> EmptyFile]
  /\ \E t \in InitTimerEnds :
       clients = [i \in 0..(ClientsLen - 1) |-> [client |-> 0, timer_end |-> t]]
  /\ data_bsize \in {DataBSizeMin, DataBSizeMin + DataBSizeGap}
  /\ char_signed \in BOOLEAN
  /\ now = 0
  /\ idx = -1
  /\ log = <<>>
  /\ inp = NoInput
  /\ pre = [what |-> "init", slot |-> -1, client |-> 0, timer_end |-> 0, now |-> 0]
  /\ ret = 0
  /\ crashed = FALSE

\* The clock moves on; it may do so between two iterations of the loop.
Tick ==
  /\ ~crashed
  /\ now < MaxTime
  /\ now' = now + 1
  /\ UNCHANGED <<files, clients, data_bsize, char_signed, idx, log, inp, pre, ret, crashed>>

\* serve_clients, one loop iteration per step; the call is in progress
\* while idx >= 0 and no other operation of the server runs meanwhile.
ServeClients(requests) ==
  /\ ~crashed
  /\ LET i == IF idx = -1 THEN 0 ELSE idx
     IN \E in \in Inputs(i, requests) :
          \E ctx \in {ServeOne(in, i)} :
             /\ InputFits(in, ctx)
             /\ clients' = ctx.cl
             /\ log' = ctx.lg
             /\ crashed' = ctx.crash
             /\ inp' = in
             /\ pre' = [what |-> "serve", slot |-> i, client |-> clients[i].client,
                        timer_end |-> clients[i].timer_end, now |-> now]
             /\ idx' = IF i + 1 >= ClientsLen THEN -1 ELSE i + 1
  /\ ret' = 0
  /\ UNCHANGED <<files, data_bsize, char_signed, now>>

\* accept_clients: every empty slot takes what the accept callback returns,
\* 0 or the identifier (at most maxid) of a connection that is not in the
\* table.  With inorder the connections waiting when the call starts are
\* handed out first and none arrives during the call: after a 0 the
\* callback keeps returning 0.
RECURSIVE AcceptFrom(_, _, _)
AcceptFrom(cl, i, ids) ==
  IF i >= ClientsLen THEN cl
  ELSE IF cl[i].client = 0
       THEN AcceptFrom([cl EXCEPT ![i].client = ids[i]], i + 1, ids)
       ELSE AcceptFrom(cl, i + 1, ids)

AcceptClients(maxid, inorder) ==
  /\ ~crashed
  /\ idx = -1
  /\ \E ids \in [0..(ClientsLen - 1) -> 0..maxid] :
       /\ \A i \in 0..(ClientsLen - 1) :
            IF clients[i].client # 0 THEN ids[i] = 0
            ELSE ids[i] # 0 =>
                   /\ \A j \in 0..(ClientsLen - 1) : clients[j].client # ids[i]
                   /\ \A j \in 0..(i - 1) : ids[j] # ids[i]
                   /\ inorder => \A j \in 0..(i - 1) : clients[j].client = 0 => ids[j] # 0
       /\ clients' = AcceptFrom(clients, 0, ids)
  /\ log' = <<>>
  /\ inp' = NoInput
  /\ pre' = [what |-> "accept", slot |-> -1, client |-> 0, timer_end |-> 0, now |-> now]
  /\ ret' = 0
  /\ UNCHANGED <<files, data_bsize, char_signed, now, idx, crashed>>

register_file(fs, newfile) ==
  IF get_file_index(fs, PathMem(newfile.path),
                    strlen(PathMem(newfile.path), newfile.path_size)) # -1
  THEN [ret |-> 1, files |-> fs]
  ELSE LET free == {i \in 0..(FilesBSize - 1) : fs[i].path = 0 /\ fs[i].path_size = 0}
       IN IF free = {} THEN [ret |-> 1, files |-> fs]
          ELSE LET empty_slot_index == CHOOSE i \in free : \A j \in free : i <= j
               IN [ret |-> 0,
                   files |-> [fs EXCEPT ![empty_slot_index] =
                                [path |-> newfile.path, path_size |-> newfile.path_size,
                                 writer_f |-> newfile.writer_f, reader_f |-> newfile.reader_f]]]

\* Mutant: the handlers of the slot are left in place.
unregister_file_pathonly(fs, path, path_size) ==
  LET file_index == get_file_index(fs, PathMem(path), strlen(PathMem(path), path_size))
  IN IF file_index = -1 THEN [ret |-> 1, files |-> fs]
     ELSE [ret |-> 0, files |-> [fs EXCEPT ![file_index].path = 0,
                                           ![file_index].path_size = 0]]

unregister_file(fs, path, path_size) ==
  LET file_index == get_file_index(fs, PathMem(path), strlen(PathMem(path), path_size))
  IN IF file_index = -1 THEN [ret |-> 1, files |-> fs]
     ELSE [ret |-> 0, files |-> [fs EXCEPT ![file_index] = EmptyFile]]

RegisterFile ==
  /\ ~crashed
  /\ idx = -1
  /\ \E newfile \in NewFiles :
       LET res == register_file(files, newfile)
       IN /\ files' = res.files
          /\ ret' = res.ret
  /\ log' = <<>>
  /\ inp' = NoInput
  /\ pre' = [what |-> "register", slot |-> -1, client |-> 0, timer_end |-> 0, now |-> now]
  /\ UNCHANGED <<clients, data_bsize, char_signed, now, idx, crashed>>

UnregisterFile ==
  /\ ~crashed
  /\ idx = -1
  /\ \E p \in 1..Len(NameStore) :
       LET res == unregister_file(files, p, Len(NameStore[p]))
       IN /\ files' = res.files
          /\ ret' = res.ret
  /\ log' = <<>>
  /\ inp' = NoInput
  /\ pre' = [what |-> "unregister", slot |-> -1, client |-> 0, timer_end |-> 0, now |-> now]
  /\ UNCHANGED <<clients, data_bsize, char_signed, now, idx, crashed>>

\* ---------------------------------------------------------- specifications
\* The server with its registry and one connection at a time, served with
\* the full range of requests; the clock stands still.
ServeRich == ServeClients(RichInputs)
AcceptOne == AcceptClients(1, TRUE)

Next == RegisterFile \/ UnregisterFile \/ AcceptOne \/ ServeRich

Spec == Init /\ [][Next]_vars

\* The server with every client slot in use and a moving clock, served with
\* a few requests on an empty registry.
ServeFew == ServeClients(FewInputs)
AcceptAny == AcceptClients(MaxClientId, FALSE)

NextTimer == Tick \/ AcceptAny \/ ServeFew

\* None of these requests has a header byte of 80 hex or above, so both
\* kinds of build behave alike here and one of them is followed.
InitTimer == Init /\ ~char_signed

SpecTimer == InitTimer /\ [][NextTimer]_vars

\* The header codec on its own: a 9-byte buffer is decoded by read_headers
\* and the decoded message encoded again by fill_headers.  The buffer is
\* held in inp, the decoded message in ret, the encoded bytes in log.
CodecBytes == {0, 1, 128, 255}

HeaderBuffers ==
  { p \o d \o <<o>> : p \in [1..4 -> CodecBytes], d \in [1..4 -> {0, 128}], o \in {0, 255} }

InitCodec ==
  /\ files = [i \in 0..(FilesBSize - 1) |-> EmptyFile]
  /\ clients = [i \in 0..(ClientsLen - 1) |-> [client |-> 0, timer_end |-> 0]]
  /\ data_bsize = DataBSizeMin
  /\ char_signed \in BOOLEAN
  /\ now = 0
  /\ idx = -1
  /\ log = <<>>
  /\ inp \in HeaderBuffers
  /\ pre = [what |-> "buffer", slot |-> -1, client |-> 0, timer_end |-> 0, now |-> 0]
  /\ ret = 0
  /\ crashed = FALSE

ReadHeaders ==
  /\ pre.what = "buffer"
  /\ ret' = read_headers(inp, char_signed)
  /\ pre' = [pre EXCEPT !.what = "read_headers"]
  /\ UNCHANGED <<files, clients, data_bsize, char_signed, now, idx, log, inp, crashed>>

FillHeaders ==
  /\ pre.what = "read_headers"
  /\ log' = fill_headers(ret)
  /\ pre' = [pre EXCEPT !.what = "fill_headers"]
  /\ UNCHANGED <<files, clients, data_bsize, char_signed, now, idx, inp, ret, crashed>>

NextCodec == ReadHeaders \/ FillHeaders

SpecCodec == InitCodec /\ [][NextCodec]_vars

\* ------------------------------------------------- reading the latest step
RECURSIVE SumRead(_)
SumRead(es) ==
  IF es = <<>> THEN 0
  ELSE (IF Head(es)[1] = "read" /\ Head(es)[4] > 0 THEN Head(es)[4] ELSE 0) + SumRead(Tail(es))

\* The bytes the write callback took in full, in order.
RECURSIVE Written(_)
Written(es) ==
  IF es = <<>> THEN <<>>
  ELSE (IF Head(es)[1] = "write" /\ Head(es)[4] = Head(es)[3] THEN Head(es)[5] ELSE <<>>)
       \o Written(Tail(es))

BytesRead == SumRead(log)
BytesWritten == Written(log)
Events(tag) == {k \in 1..Len(log) : log[k][1] = tag}
HandlerCalled == Events("call") # {}

\* The latest step was a loop iteration that found a client in its slot.
ServedSlot == pre.what = "serve" /\ pre.client # 0
\* ... whose deadline had not passed and who had a header's worth of bytes.
GotRequest == ServedSlot /\ pre.timer_end > pre.now /\ inp.avail >= 9
\* Every read found its bytes and every write was taken.
IOok == inp.cut = Len(Wire(inp.m)) /\ inp.wf = 0
Closed == \E k \in Events("close") : log[k][2] = pre.client
Retained == clients[pre.slot].client = pre.client /\ ~Closed
FitsBuffers == inp.m.psize <= PathBSize /\ inp.m.dsize <= data_bsize

ErrorResponse(code, path) ==
  <<Len(path), 0, 0, 0, 2, 0, 0, 0, 132>> \o path \o <<code % 256, code \div 256>>
NoopResponse == <<0, 0, 0, 0, 0, 0, 0, 0, 128>>

Populated(k) == files[k].path # 0
FileName(k) == SubSeq(PathMem(files[k].path), 1, FileStrlen(files[k]))
HasNul(path) == \E j \in 1..Len(path) : path[j] = 0
IsFileOp == inp.m.op \in {OP_READ, OP_WRITE}

\* The bytes of the message a handler returned, by its choice.
ReplyBytes ==
  IF inp.hres = "echo"
  THEN <<inp.m.psize, 0, 0, 0, 1, 0, 0, 0, inp.m.op + 128>> \o inp.m.path \o HandlerMem
  ELSE <<0, 0, 0, 0, 0, 0, 0, 0, inp.m.op + 128>>

\* Name storage that holds a zero-terminated string within size bytes, and
\* the string it holds.
Terminated(p, size) == p # 0 /\ \E i \in 1..size : PathMem(p)[i] = 0
NameOf(p, size) == SubSeq(PathMem(p), 1, strlen(PathMem(p), size))
\* The populated slots whose name is the string held at p.
SlotsNamed(p, size) ==
  {k \in 0..(FilesBSize - 1) :
     Populated(k) /\ Terminated(p, size) /\ FileName(k) = NameOf(p, size)}
EmptySlots == {k \in 0..(FilesBSize - 1) : files[k] = EmptyFile}

\* The step is the call register_file(nf), resp. unregister_file(p, size).
IsRegister(nf) ==
  /\ pre'.what = "register"
  /\ files' = register_file(files, nf).files
  /\ ret' = register_file(files, nf).ret
IsUnregister(p, size) ==
  /\ pre'.what = "unregister"
  /\ files' = unregister_file(files, p, size).files
  /\ ret' = unregister_file(files, p, size).ret

\* A transport call of the latest step for its client that came back short.
ShortIo(k) ==
  log[k][1] \in {"read", "write"} /\ log[k][2] = pre.client /\ log[k][4] # log[k][3]
\* The working state the latest loop iteration started from.
PreCtx ==
  [Ctx0 EXCEPT !.cl = [clients EXCEPT ![pre.slot] =
                         [client |-> pre.client, timer_end |-> pre.timer_end]]]
\* A message of three writes: header, path, two bytes of data.
ThreeWrites ==
  [psize |-> 0, dsize |-> 2, op |-> RESPONSE_OF(OP_NOOP), path |-> "null", data |-> "data_buffer"]

\* The step is a call of one of the named kinds: every operation of the
\* server records itself in pre, the clock alone does not.
StepIs(kinds) == now' = now /\ pre'.what \in kinds

\* The write callbacks of the latest step, in order.
IsWrite(e) == e[1] = "write"
Writes == SelectSeq(log, IsWrite)

ErrorCodes == {1, 3, 1000, 3000, 3003}

\* The names of the populated slots from slot i on, each with its zero byte.
RECURSIVE LsPayload(_)
LsPayload(i) ==
  IF i >= FilesBSize THEN <<>>
  ELSE (IF Populated(i) THEN FileName(i) \o <<0>> ELSE <<>>) \o LsPayload(i + 1)

\* ------------------------------------------------------------------ claims
\* C1 (as claimed): a request within hard_limit but larger than a scratch
\* buffer, with all transport calls succeeding, is drained whole, answered
\* with one error response of code 1, and its client stays in its slot with
\* no close callback made for it.
C1_OversizeRetained ==
  (GotRequest /\ IOok /\ ~FitsBuffers
     /\ inp.m.psize <= HardLimit /\ inp.m.dsize <= HardLimit)
  => /\ BytesRead = 9 + inp.m.psize + inp.m.dsize
     /\ BytesWritten = ErrorResponse(1, <<>>)
     /\ Retained

\* C2 (as claimed): a READ or WRITE whose path is exactly the bytes of a
\* registered file's name, without terminator, calls that slot's reader or
\* writer with the request and sends what the handler returned, verbatim.
C2_ExactNameResolves ==
  \A k \in 0..(FilesBSize - 1) :
    (GotRequest /\ IOok /\ FitsBuffers /\ IsFileOp
       /\ Populated(k) /\ FileName(k) = inp.m.path)
    => /\ \E e \in Events("call") :
            log[e] = <<"call",
                       IF inp.m.op = OP_READ THEN files[k].reader_f ELSE files[k].writer_f,
                       k, inp.m.op, inp.m.path>>
       /\ Cardinality(Events("call")) = 1
       /\ BytesWritten = ReplyBytes

\* C3 (as claimed): a READ or WRITE whose path is the name of no populated
\* slot gets exactly one error response of code 1000 echoing psize and
\* path; no handler is called and the client is kept.
C3_UnknownPathError1000 ==
  (GotRequest /\ IOok /\ FitsBuffers /\ IsFileOp
     /\ \A k \in 0..(FilesBSize - 1) : Populated(k) => FileName(k) # inp.m.path)
  => /\ BytesWritten = ErrorResponse(1000, inp.m.path)
     /\ ~HandlerCalled
     /\ Retained

\* C4 (as claimed): a READ or WRITE whose path holds a zero byte within its
\* psize bytes is never resolved: it is answered with error 1000 and no
\* handler is called.
C4_EmbeddedNulNotFound ==
  (GotRequest /\ IOok /\ FitsBuffers /\ IsFileOp /\ HasNul(inp.m.path))
  => /\ BytesWritten = ErrorResponse(1000, inp.m.path)
     /\ ~HandlerCalled

\* C5 (as claimed): for a request that was read and whose opcode is none of
\* NOOP, READ, WRITE, LS, the response depends on the opcode alone: the
\* NOOP-response below 30, error 3003 echoing the path from 30 on; the
\* client is kept; whatever the path and the file table.
C5_OpcodeAloneDecides ==
  (GotRequest /\ IOok /\ FitsBuffers
     /\ inp.m.op \notin {OP_NOOP, OP_READ, OP_WRITE, OP_LS})
  => /\ BytesWritten = IF inp.m.op < MFS_RESERVED_OP_RANGE THEN NoopResponse
                       ELSE ErrorResponse(3003, inp.m.path)
     /\ Retained

\* C6: a header advertising psize or dsize above hard_limit makes the
\* server drop the client right after the 9 header bytes: the header read is
\* the only read, nothing is written, the close callback is made and the
\* slot's identifier is 0.
C6_HardLimitDrop ==
  (GotRequest /\ inp.cut >= 9
     /\ (inp.m.psize > HardLimit \/ inp.m.dsize > HardLimit))
  => /\ log = << <<"read", pre.client, 9, 9, SubSeq(Wire(inp.m), 1, 9)>>,
                 <<"close", pre.client, 0, 0, <<>>>> >>
     /\ clients[pre.slot].client = 0

C6_Witness ==
  /\ GotRequest /\ inp.cut >= 9
  /\ inp.m.psize <= HardLimit /\ inp.m.dsize > HardLimit
  /\ Closed /\ Len(log) = 2

\* C7: a client whose deadline is <= the clock is sent the error response
\* of code 3000 (84 hex, psize 0, dsize 2, data B8 0B), then dropped (close
\* callback once, identifier 0), with no read made for it in that tick even
\* when 9 bytes are available; and the code-3000 payload is written only to
\* a client whose deadline is <= the clock.
C7_Timeout ==
  /\ (ServedSlot /\ pre.timer_end <= pre.now)
     => /\ Events("read") = {}
        /\ Cardinality(Events("close")) = 1 /\ Closed
        /\ clients[pre.slot].client = 0
        /\ \A k \in Events("write") : log[k][2] = pre.client
        /\ inp.wf = 0 => /\ BytesWritten = <<0, 0, 0, 0, 2, 0, 0, 0, 132, 184, 11>>
                         /\ log[Len(log)][1] = "close"
  /\ (pre.what = "serve" /\ \E k \in Events("write") : log[k][5] = <<184, 11>>)
     => pre.timer_end <= pre.now

C7_Witness ==
  /\ ServedSlot /\ pre.timer_end = pre.now /\ pre.now > 0
  /\ inp.avail >= 9 /\ inp.wf = 0
  /\ BytesWritten = <<0, 0, 0, 0, 2, 0, 0, 0, 132, 184, 11>>
  /\ clients[pre.slot].client = 0

\* C8 (as claimed): every message the server itself writes is framed: the
\* psize and dsize its header declares are the numbers of path and data
\* bytes written behind the header, for LS on both paths too.
C8_Framed ==
  (ServedSlot /\ IOok /\ ~HandlerCalled /\ Len(BytesWritten) >= 9)
  => Len(BytesWritten) = 9 + BytesWritten[1] + BytesWritten[5]

\* C9 (as claimed): the LS response has psize 0 and op 83 hex and its data
\* payload is the names of the nonempty slots in table order, each with one
\* zero byte, dsize counting exactly these bytes (0 on an empty registry).
C9_LsPayload ==
  (GotRequest /\ IOok /\ FitsBuffers /\ inp.m.op = OP_LS)
  => BytesWritten = <<0, 0, 0, 0, Len(LsPayload(0)), 0, 0, 0, 131>> \o LsPayload(0)

\* C10: after an exchange that leaves the client in its slot the server has
\* read exactly 9 + psize + dsize bytes of that client's stream.
C10_ConsumedWholeRequest ==
  (GotRequest /\ Retained) => BytesRead = 9 + inp.m.psize + inp.m.dsize

C10_Witness ==
  /\ GotRequest /\ Retained /\ ~crashed
  /\ inp.m.psize > 0 /\ inp.m.dsize > 0
  /\ BytesRead = 9 + inp.m.psize + inp.m.dsize
  /\ Len(BytesWritten) >= 9

\* C13 (as claimed): the header codec round-trips: for every 9-byte buffer,
\* bytes of 80 hex and above included, read_headers yields psize and dsize
\* as the unsigned 32-bit little-endian values of bytes 0..3 and 4..7, and
\* fill_headers of the decoded message yields the buffer again.
C13_RoundTrip ==
  /\ pre.what \in {"read_headers", "fill_headers"}
     => /\ ret.psize = SubSeq(inp, 1, 4)
        /\ ret.dsize = SubSeq(inp, 5, 8)
        /\ ret.op = inp[9]
  /\ pre.what = "fill_headers" => log = inp

\* C11 (as claimed): for a well-formed request that fits the buffers, with
\* all transport calls succeeding, one loop iteration reads exactly one
\* message from the client and then writes exactly one response message to
\* that same client, and nothing else.
C11_OneRequestOneResponse ==
  (GotRequest /\ IOok /\ FitsBuffers)
  => /\ BytesRead = 9 + inp.m.psize + inp.m.dsize
     /\ \A k \in Events("read") \cup Events("write") : log[k][2] = pre.client
     /\ \A r \in Events("read") : \A w \in Events("write") : r < w
     /\ Events("close") = {}
     /\ Len(BytesWritten) >= 9
     /\ Len(BytesWritten) = 9 + BytesWritten[1] + BytesWritten[5]

\* C12: every error response the server sends has op 84 hex, dsize 2 and
\* the error code in two data bytes, low byte first, behind the psize and
\* path of the message it was built from: none for the codes 1, 3 and 3000,
\* the request's for 1000 and 3003.  Stated on the writes the server
\* attempts, up to the first one the transport refuses.
C12_ErrorResponses ==
  (pre.what = "serve" /\ Len(Writes) >= 1 /\ Writes[1][5][9] = RESPONSE_OF(OP_ERROR))
  => \E code \in ErrorCodes :
       LET path == IF code \in {1, 3, 3000} THEN <<>> ELSE inp.m.path
       IN /\ Writes[1][5] = <<Len(path), 0, 0, 0, 2, 0, 0, 0, 132>>
          /\ Len(Writes) >= 2 => Writes[2][5] = path
          /\ Len(Writes) >= 3 => Writes[3][5] = <<code % 256, code \div 256>>
          /\ Len(Writes) <= 3

C12_Witness ==
  /\ GotRequest /\ IOok
  /\ inp.m.path = <<1, 0>>
  /\ BytesWritten = ErrorResponse(1000, <<1, 0>>)
  /\ Len(Writes) = 3

\* C14: after any sequence of register_file and unregister_file calls from
\* an all-empty table, no two populated slots hold the same name.
C14_UniqueNames ==
  \A j \in 0..(FilesBSize - 1) : \A k \in 0..(FilesBSize - 1) :
    (j < k /\ Populated(j) /\ Populated(k)) => FileName(j) # FileName(k)

C14_Witness ==
  /\ pre.what = "register" /\ ret = 1
  /\ files[0].path = 6 /\ files[1].path = 2 /\ files[2] = EmptyFile

\* C15 (as claimed): register_file of a file whose storage holds a
\* zero-terminated name returns 1 and leaves every slot unchanged when a
\* populated slot has that name or no slot is empty; otherwise it returns
\* 0 and copies the four fields into the lowest empty slot, leaving the
\* other slots unchanged; no callback is made and no client slot changes.
C15_RegisterFile ==
  [][ \A nf \in NewFiles :
        (IsRegister(nf) /\ Terminated(nf.path, nf.path_size))
        => /\ IF SlotsNamed(nf.path, nf.path_size) # {} \/ EmptySlots = {}
              THEN ret' = 1 /\ files' = files
              ELSE /\ ret' = 0
                   /\ \E k \in EmptySlots :
                        /\ \A j \in EmptySlots : k <= j
                        /\ files' = [files EXCEPT ![k] = nf]
           /\ log' = <<>>
           /\ clients' = clients ]_vars

\* C16 (as claimed): unregister_file(path, path_size) returns 0 exactly
\* when a populated slot holds the name given by path, and then zeroes that
\* slot alone; when no populated slot has that name, empty slots or a path
\* without terminator notwithstanding, it returns 1 and changes nothing.
C16_UnregisterFile ==
  [][ \A p \in 1..Len(NameStore) :
        IsUnregister(p, Len(NameStore[p]))
        => IF SlotsNamed(p, Len(NameStore[p])) # {}
           THEN /\ ret' = 0
                /\ \E k \in SlotsNamed(p, Len(NameStore[p])) :
                     files' = [files EXCEPT ![k] = EmptyFile]
           ELSE ret' = 1 /\ files' = files ]_vars

\* C18: after any sequence of register_file and unregister_file calls from
\* an all-empty table every slot is entirely zero or has a non-null path
\* and a nonzero path_size.
C18_SlotsWellFormed ==
  \A k \in 0..(FilesBSize - 1) :
    files[k] = EmptyFile \/ (files[k].path # 0 /\ files[k].path_size # 0)

C18_Witness ==
  /\ pre.what = "unregister" /\ ret = 0
  /\ files[0] = EmptyFile /\ Populated(1)
  /\ files[1].reader_f # 0 /\ files[1].writer_f # 0

\* C17: any short transport call drops the client: when a read or a write
\* made for the client of the iteration returns another count than asked
\* for, the slot's identifier is 0 and the close callback was made for it
\* when the iteration ends; and send_mfs_message returns -1 and has dropped
\* the client when one of its three writes is short, 0 when none is.
C17_ShortIoDrops ==
  /\ (ServedSlot /\ \E k \in 1..Len(log) : ShortIo(k))
     => clients[pre.slot].client = 0 /\ Closed
  /\ ServedSlot
     => /\ \A w \in 1..3 :
             LET c == send_mfs_message(PreCtx, [inp EXCEPT !.wf = w], ThreeWrites, pre.client)
             IN /\ c.r = -1
                /\ c.cl[pre.slot].client = 0
                /\ c.lg[Len(c.lg)] = <<"close", pre.client, 0, 0, <<>>>>
        /\ LET c == send_mfs_message(PreCtx, [inp EXCEPT !.wf = 0], ThreeWrites, pre.client)
           IN c.r = 0 /\ c.cl[pre.slot].client = pre.client

C17_Witness ==
  /\ GotRequest /\ inp.wf = 0
  /\ \E k \in Events("read") : log[k][3] # 9 /\ ShortIo(k)
  /\ Closed /\ clients[pre.slot].client = 0

\* C19 (as claimed): on the oversize path, all reads succeeding, the server
\* reads exactly psize path bytes and then exactly dsize data bytes, in
\* chunks no larger than a scratch buffer, before it sends error code 1,
\* for every psize and dsize up to hard_limit.
C19_DrainsWhole ==
  (GotRequest /\ IOok /\ ~FitsBuffers
     /\ inp.m.psize <= HardLimit /\ inp.m.dsize <= HardLimit)
  => /\ BytesRead = 9 + inp.m.psize + inp.m.dsize
     /\ \A k \in Events("read") :
          k > 1 => (log[k][3] <= PathBSize \/ log[k][3] <= data_bsize)
     /\ \A r \in Events("read") : \A w \in Events("write") : r < w
     /\ Len(Writes) = 3 /\ Writes[3][5] = <<1, 0>>

\* C20: a slot whose deadline has not passed and whose client has fewer
\* than 9 bytes available is skipped: no read, write or close callback is
\* made and identifier and deadline stay as they were; an empty slot
\* causes no callback either.
C20_Skipped ==
  (pre.what = "serve"
     /\ (pre.client = 0 \/ (pre.timer_end > pre.now /\ inp.avail < 9)))
  => /\ log = <<>>
     /\ clients[pre.slot] = [client |-> pre.client, timer_end |-> pre.timer_end]

C20_Witness ==
  /\ ServedSlot /\ pre.timer_end > pre.now /\ pre.now > 0
  /\ inp.avail = 8
  /\ log = <<>> /\ clients[pre.slot].client = pre.client

\* C21 (as claimed): a client is never timed out earlier than timer_ms
\* after the later of its acceptance and its last successfully read
\* request.  Stated on the deadline that decides the timeout: a client is
\* timed out only once its deadline is reached, and its deadline lies at
\* least timer_ms ahead when it is accepted, into a fresh or a freed slot,
\* and when a request was read from it and it stays connected.
C21_NoEarlyTimeout ==
  [][ /\ (StepIs({"serve"}) /\ pre'.client # 0
            /\ (\A k \in 1..Len(log') : log'[k][1] # "read")
            /\ (\E k \in 1..Len(log') : log'[k][1] = "close"))
         => clients[pre'.slot].timer_end <= now
      /\ \A i \in 0..(ClientsLen - 1) :
           (StepIs({"accept"}) /\ clients[i].client = 0 /\ clients'[i].client # 0)
           => clients'[i].timer_end >= now' + TimerMs
      /\ (StepIs({"serve"}) /\ pre'.client # 0 /\ pre'.timer_end > pre'.now
            /\ inp'.avail >= 9 /\ clients'[pre'.slot].client = pre'.client)
         => clients'[pre'.slot].timer_end >= now' + TimerMs ]_vars

\* C22 (as claimed): once the close callback was made for a client, no
\* read or write callback is made with that identifier before the accept
\* callback returns it again; in particular not inside read_mfs_message
\* after a short read while an oversized path or data is consumed.
C22_NoIoAfterClose ==
  \A k \in Events("close") : \A j \in 1..Len(log) :
    (j > k /\ log[j][1] \in {"read", "write"}) => log[j][2] # log[k][2]

\* C23: with an accept callback that never returns an identifier that is
\* in the table, the close callback is made at most once per iteration and
\* only for the nonzero identifier of the slot being served, which is then
\* 0; a slot keeps its identifier in every other case; accept_clients
\* changes empty slots only and the registry calls change no slot.  So
\* the nonzero identifiers in the table are at all times the accepted
\* connections not yet closed, each closed exactly once.
C23_ClosedOnce ==
  [][ /\ StepIs({"accept"})
         => /\ \A i \in 0..(ClientsLen - 1) :
                 clients[i].client # 0 => clients'[i] = clients[i]
            /\ log' = <<>>
      /\ StepIs({"serve"})
         => LET i == pre'.slot
                closes == {k \in 1..Len(log') : log'[k][1] = "close"}
            IN /\ \A j \in 0..(ClientsLen - 1) :
                    j # i => clients'[j].client = clients[j].client
               /\ \A k \in closes : log'[k][2] = clients[i].client /\ log'[k][2] # 0
               /\ Cardinality(closes) <= 1
               /\ clients'[i].client = IF closes = {} THEN clients[i].client ELSE 0
      /\ StepIs({"register", "unregister"})
         => clients' = clients /\ log' = <<>> ]_vars

C23_Witness ==
  /\ ServedSlot /\ pre.timer_end > pre.now
  /\ Cardinality(Events("close")) = 1 /\ Closed
  /\ \E k \in Events("close") : \E j \in Events("write") : j > k
  /\ clients[pre.slot].client = 0
  /\ \E j \in 0..(ClientsLen - 1) : clients[j].client # 0

====
